---------------------------- MODULE Spec2Model ----------------------------
(***************************************************************************)
(* Model of the Confluence MCP server: the ConfluenceService gateway       *)
(* (confluence-service.ts) and the tool bindings and startup sequence of   *)
(* packages/confluence/src/index.ts.                                       *)
(*                                                                         *)
(* JavaScript values are modelled as follows:                              *)
(*   - strings are TLA+ strings (concatenation \o, Len and SubSeq work on  *)
(*     them), so "" is a real, falsy string;                               *)
(*   - an optional value (undefined or a value) is a sequence of length    *)
(*     at most one: None = << >> is undefined, Some(v) = <<v>>;            *)
(*   - an object is a record; an omitted property is a missing field.      *)
(***************************************************************************)
EXTENDS Integers, Sequences, FiniteSets, TLC

VARIABLES
    env,             \* process.env: CONFLUENCE_API_TOKEN / _HOST / _API_BASE_PATH
    pc,              \* position of the module's top-level code (index.ts)
    missingEnvVars,  \* index.ts:9, the list validateConfig() returned
    startupError,    \* the error the top-level code threw, if any
    ctorArgs,        \* arguments of the last `new ConfluenceService(...)`
    ctorError,       \* the error that construction threw (None when none)
    OpenAPI,         \* the generated client's global configuration object
    registered,      \* names of the tools registered on the MCP server
    tool,            \* tool being served ("" when idle)
    args,            \* its validated arguments
    phase,           \* "idle" | "awaiting" | "done"
    calls,           \* remote operations issued by this invocation, in order
    envelopes,       \* envelopes the gateway resolved to, in order
    response,        \* what the handler returned (None until it returns)
    raised,          \* an exception escaped a gateway method
    gateways,        \* the ConfluenceService objects held, each with the base
                     \* URL and token its construction set
    lastRequest      \* the last remote request as sent: the gateway that
                     \* issued it and the base URL and token it went out with

vars == <<env, pc, missingEnvVars, startupError, ctorArgs, ctorError, OpenAPI,
          registered, tool, args, phase, calls, envelopes, response, raised,
          gateways, lastRequest>>

startupVars == <<env, pc, missingEnvVars, startupError, ctorArgs, ctorError,
                 OpenAPI, registered>>
toolVars == <<tool, args, phase, calls, envelopes, response, raised>>
gatewayVars == <<gateways, lastRequest>>

----------------------------------------------------------------------------
(* JavaScript values *)

None == << >>
Some(v) == <<v>>

\* JavaScript truthiness of an optional string: undefined and "" are falsy.
Truthy(o) == o # None /\ o[1] # ""

\* String.prototype.includes
Includes(s, t) ==
    \E i \in 1..(Len(s) - Len(t) + 1) : SubSeq(s, i, i + Len(t) - 1) = t

\* Largest pagination number a caller supplies in the model.
MaxNum == 12

Digit(d) ==
    CASE d = 0 -> "0" [] d = 1 -> "1" [] d = 2 -> "2" [] d = 3 -> "3"
      [] d = 4 -> "4" [] d = 5 -> "5" [] d = 6 -> "6" [] d = 7 -> "7"
      [] d = 8 -> "8" [] d = 9 -> "9"

\* Number.prototype.toString() on a non-negative integer.
RECURSIVE NumberToString(_)
NumberToString(n) ==
    IF n < 10 THEN Digit(n) ELSE NumberToString(n \div 10) \o Digit(n % 10)

\* `x?.toString()`: optional chaining short-circuits on undefined only.
OptToString(o) == IF o = None THEN None ELSE Some(NumberToString(o[1]))

\* Array.prototype.join(', ')
RECURSIVE Join(_)
Join(xs) ==
    IF xs = << >> THEN ""
    ELSE IF Len(xs) = 1 THEN xs[1]
    ELSE xs[1] \o ", " \o Join(Tail(xs))


----------------------------------------------------------------------------
(* ConfluenceService: construction and configuration *)

ConstructorError == "Either host or fullApiUrl must be provided"

\* A constructor that lets the host win over the full API URL.
ConstructorHostFirst(host, token, fullApiUrl, api) ==
    IF Truthy(host)
    THEN [error |-> None,
          api |-> [BASE |-> Some("https://" \o host[1]),
                   TOKEN |-> token, VERSION |-> Some("1.0")]]
    ELSE IF Truthy(fullApiUrl)
    THEN [error |-> None,
          api |-> [BASE |-> Some(fullApiUrl[1]),
                   TOKEN |-> token, VERSION |-> Some("1.0")]]
    ELSE [error |-> Some(ConstructorError), api |-> api]

\* new ConfluenceService(host, token, fullApiUrl), run on the global OpenAPI
\* object `api`: the error thrown (None when none) and the object afterwards.
Constructor(host, token, fullApiUrl, api) ==
    IF Truthy(fullApiUrl)
    THEN [error |-> None,
          api |-> [BASE |-> Some(fullApiUrl[1]),
                   TOKEN |-> token, VERSION |-> Some("1.0")]]
    ELSE IF Truthy(host)
    THEN [error |-> None,
          api |-> [BASE |-> Some("https://" \o host[1]),
                   TOKEN |-> token, VERSION |-> Some("1.0")]]
    ELSE [error |-> Some(ConstructorError), api |-> api]

TokenMissing == "CONFLUENCE_API_TOKEN"
HostOrPathMissing == "CONFLUENCE_HOST or CONFLUENCE_API_BASE_PATH"

\* A validateConfig that requires the host even when a base path is set.
validateConfigHostOnly(e) ==
    (IF ~Truthy(e.token) THEN <<TokenMissing>> ELSE << >>)
    \o (IF ~Truthy(e.host) THEN <<HostOrPathMissing>> ELSE << >>)

\* A validateConfig that checks the token only.
validateConfigTokenOnly(e) ==
    IF ~Truthy(e.token) THEN <<TokenMissing>> ELSE << >>

\* ConfluenceService.validateConfig() over the environment e.
validateConfig(e) ==
    (IF ~Truthy(e.token) THEN <<TokenMissing>> ELSE << >>)
    \o (IF ~Truthy(e.host) /\ ~Truthy(e.basePath)
        THEN <<HostOrPathMissing>> ELSE << >>)

----------------------------------------------------------------------------
(* ConfluenceService: the remote operation each method issues *)

\* getContent without the includes() test: always appends.
getContentAlwaysAppend(contentId, expand) ==
    [op |-> "getContentById", contentId |-> contentId,
     expand |-> IF Truthy(expand) THEN expand[1] \o ",body.storage"
                ELSE "body.storage"]

getContent(contentId, expand) ==
    LET expandValue == IF Truthy(expand) THEN expand[1] ELSE "body.storage"
        finalExpand == IF Truthy(expand) /\ ~Includes(expand[1], "body.storage")
                       THEN expand[1] \o ",body.storage"
                       ELSE expandValue
    IN  [op |-> "getContentById", contentId |-> contentId,
         expand |-> finalExpand]

\* A pagination conversion that treats 0 as absent (`x ? x.toString() : undefined`).
PageParamTruthy(o) == IF o = None \/ o[1] = 0 THEN None ELSE OptToString(o)

\* limit?.toString() / start?.toString()
PageParam(o) == OptToString(o)

searchContent(cql, limit, start, expand) ==
    [op |-> "search1", expand |-> expand, limit |-> PageParam(limit),
     start |-> PageParam(start), cql |-> cql]

createContent(content) ==
    [op |-> "createContent", body |-> content]

updateContent(contentId, content) ==
    [op |-> "update2", contentId |-> contentId, body |-> content]

deleteContent(contentId, status) ==
    [op |-> "delete3", contentId |-> contentId, status |-> status]

getPageChildren(contentId, limit, start, expand) ==
    [op |-> "childrenOfType", contentId |-> contentId, type |-> "page",
     expand |-> expand, limit |-> PageParam(limit), start |-> PageParam(start)]

getLabels(contentId, prefix, limit, start) ==
    [op |-> "labels", contentId |-> contentId, prefix |-> prefix,
     limit |-> PageParam(limit), start |-> PageParam(start)]

\* The default parameter value applies to undefined only.
addLabel(contentId, labelName, prefix) ==
    [op |-> "addLabels", contentId |-> contentId,
     body |-> [name |-> labelName,
               prefix |-> IF prefix = None THEN "global" ELSE prefix[1]]]

getComments(contentId, limit, start, expand, depth) ==
    [op |-> "commentsOfContent", contentId |-> contentId,
     expand |-> IF Truthy(expand) THEN expand[1] ELSE "body.view",
     depth |-> depth, limit |-> PageParam(limit), start |-> PageParam(start)]

addComment(contentId, body, parentCommentId) ==
    LET commentObj ==
            [type |-> "comment",
             container |-> [id |-> contentId, type |-> "page"],
             body |-> [storage |-> [value |-> body,
                                    representation |-> "storage"]]]
    IN  [op |-> "createContent",
         body |-> IF Truthy(parentCommentId)
                  THEN [type |-> commentObj.type,
                        container |-> commentObj.container,
                        body |-> commentObj.body,
                        ancestors |-> <<[id |-> parentCommentId[1]]>>]
                  ELSE commentObj]

getAttachments(contentId, filename, mediaType, limit, start, expand) ==
    [op |-> "getAttachments", contentId |-> contentId, expand |-> expand,
     filename |-> filename, limit |-> PageParam(limit),
     start |-> PageParam(start), mediaType |-> mediaType]

deleteAttachment(contentId, attachmentId) ==
    [op |-> "removeAttachment", attachmentId |-> attachmentId,
     contentId |-> contentId]

searchSpaces(searchText, limit, start, expand) ==
    LET cql == "type=space AND title ~ \"" \o searchText \o "\""
    IN  [op |-> "search1", expand |-> expand, limit |-> PageParam(limit),
         start |-> PageParam(start), cql |-> cql]

----------------------------------------------------------------------------
(* The remote API and the result envelope *)

\* JSON null: a payload that is present and falsy.
JsNull == [null |-> TRUE]

\* Content items the remote "get content by id" operation answers with.
RemoteItems ==
    { [type |-> ty, title |-> ti, space |-> [key |-> "X"],
       version |-> [number |-> 4]] :
        ty \in {"page", "blogpost"}, ti \in {"Old"} }

RemoteData == {None, Some(JsNull)} \cup { Some(i) : i \in RemoteItems }

ErrorMessages == {"boom", "Not Found"}

\* How a remote operation settles: it resolves with a payload or rejects.
Outcomes ==
    { [ok |-> TRUE, data |-> d] : d \in RemoteData }
    \cup { [ok |-> FALSE, error |-> m] : m \in ErrorMessages }

\* handleApiOperation(operation, errorMessage), given how `operation` settled:
\* whether the returned promise rejects, and the envelope it resolves to.
handleApiOperation(outcome) ==
    IF outcome.ok
    THEN [raised |-> FALSE,
          envelope |-> [success |-> TRUE, data |-> outcome.data, error |-> None]]
    ELSE [raised |-> FALSE,
          envelope |-> [success |-> FALSE, data |-> None,
                        error |-> Some(outcome.error)]]

\* A gateway method that awaits the remote operation itself, unwrapped.
GatewayUnwrapped(outcome) ==
    IF outcome.ok
    THEN handleApiOperation(outcome)
    ELSE [raised |-> TRUE,
          envelope |-> [success |-> FALSE, data |-> None, error |-> None]]

\* What a ConfluenceService method returns once its one remote operation has
\* settled: `return handleApiOperation(() => <remote operation>, '<message>')`.
GatewayReturn(outcome) == handleApiOperation(outcome)

\* formatToolResponse(result): the envelope wrapped for the transport.
formatToolResponse(result) == [content |-> result]

\* `!currentContent.data` is false
DataTruthy(d) == d # None /\ d[1] # JsNull

----------------------------------------------------------------------------
(* Tool bindings (index.ts) *)

\* Reading a property of an object: undefined when the object has none.
Prop(obj, f) == IF f \in DOMAIN obj THEN Some(obj[f]) ELSE None

\* obj.f = v
WithField(obj, f, v) ==
    [g \in DOMAIN obj \cup {f} |-> IF g = f THEN v ELSE obj[g]]

ToolNames ==
    {"confluence_getContent", "confluence_searchContent",
     "confluence_createContent", "confluence_updateContent",
     "confluence_searchSpace", "confluence_deletePage",
     "confluence_getPageChildren", "confluence_getLabels",
     "confluence_addLabel", "confluence_getComments",
     "confluence_addComment", "confluence_getAttachments",
     "confluence_deleteAttachment"}

\* confluence_createContent: the content object handed to createContent.
contentObj(a) ==
    LET obj == [type |-> IF a.type # "" THEN a.type ELSE "page",
                title |-> a.title,
                space |-> [key |-> a.spaceKey],
                body |-> [storage |-> [value |-> a.content,
                                       representation |-> "storage"]]]
    IN  IF Truthy(a.parentId)
        THEN WithField(obj, "ancestors", <<[id |-> a.parentId[1]]>>)
        ELSE obj

\* confluence_updateContent, index.ts:86: the negated abort condition.
FetchUsable(currentContent) ==
    currentContent.success /\ DataTruthy(currentContent.data)

\* An abort that hands the fetch's own envelope back, unwrapped.
FetchFailureBare(contentId, currentContent) ==
    [success |-> FALSE, data |-> None, error |-> currentContent.error]

\* confluence_updateContent, index.ts:87-90: the envelope of the abort.
FetchFailure(contentId, currentContent) ==
    [success |-> FALSE, data |-> None,
     error |-> Some("Failed to retrieve content with ID " \o contentId \o ": "
                    \o (IF Truthy(currentContent.error)
                        THEN currentContent.error[1]
                        ELSE "Unknown error"))]

\* An update object whose version is computed from the fetched item.
updateObjFetchedVersion(a, contentData) ==
    [id |-> a.contentId,
     type |-> Prop(contentData, "type"),
     title |-> IF Truthy(a.title) THEN a.title
               ELSE Prop(contentData, "title"),
     space |-> Prop(contentData, "space"),
     version |-> [number |-> contentData.version.number + 1,
                  message |-> a.versionComment]]

\* confluence_updateContent, index.ts:100-109: the update object before the
\* body is considered.
updateObj(a, contentData) ==
    [id |-> a.contentId,
     type |-> Prop(contentData, "type"),
     title |-> IF Truthy(a.title) THEN a.title
               ELSE Prop(contentData, "title"),
     space |-> Prop(contentData, "space"),
     version |-> [number |-> a.version, message |-> a.versionComment]]

\* confluence_updateContent, index.ts:111-119: the object sent to the update.
updateObjWithBody(a, contentData) ==
    IF Truthy(a.content)
    THEN WithField(updateObj(a, contentData), "body",
                   [storage |-> [value |-> a.content[1],
                                 representation |-> "storage"]])
    ELSE updateObj(a, contentData)

\* The first gateway call each tool handler makes with its arguments a.
FirstCall(t, a) ==
    CASE t = "confluence_getContent" -> getContent(a.contentId, a.expand)
      [] t = "confluence_searchContent" ->
            searchContent(a.cql, a.limit, a.start, a.expand)
      [] t = "confluence_createContent" -> createContent(contentObj(a))
      [] t = "confluence_updateContent" -> getContent(a.contentId, None)
      [] t = "confluence_searchSpace" ->
            searchSpaces(a.searchText, a.limit, a.start, a.expand)
      [] t = "confluence_deletePage" -> deleteContent(a.contentId, a.status)
      [] t = "confluence_getPageChildren" ->
            getPageChildren(a.contentId, a.limit, a.start, a.expand)
      [] t = "confluence_getLabels" ->
            getLabels(a.contentId, a.prefix, a.limit, a.start)
      [] t = "confluence_addLabel" ->
            addLabel(a.contentId, a.labelName, a.prefix)
      [] t = "confluence_getComments" ->
            getComments(a.contentId, a.limit, a.start, a.expand, a.depth)
      [] t = "confluence_addComment" ->
            addComment(a.contentId, a.body, a.parentCommentId)
      [] t = "confluence_getAttachments" ->
            getAttachments(a.contentId, a.filename, a.mediaType,
                           a.limit, a.start, a.expand)
      [] t = "confluence_deleteAttachment" ->
            deleteAttachment(a.contentId, a.attachmentId)

----------------------------------------------------------------------------
(* Inputs *)

ContentIds == {"123", "456"}

\* expand values a caller supplies: absent, empty, without and with
\* "body.storage" (alone, in the middle, at the start, as a prefix of a name).
Expands ==
    {None, Some(""), Some("version"), Some("space,version"),
     Some("body.storage"), Some("version,body.storage,space"),
     Some("body.storage.value"), Some("body.view")}

\* limit / start values a caller supplies: absent, zero, one and two digits.
Nums == {0, 7, 10, MaxNum}
OptNums == {None} \cup { Some(n) : n \in Nums }

OptExpand == {None, Some("space")}

ToolInputs ==
    { [tool |-> "confluence_getContent",
       args |-> [contentId |-> c, expand |-> e]] :
        c \in ContentIds, e \in Expands }
    \cup
    { [tool |-> "confluence_searchContent",
       args |-> [cql |-> "type=page", limit |-> l, start |-> s, expand |-> e]] :
        l \in OptNums, s \in OptNums, e \in OptExpand }
    \cup
    { [tool |-> "confluence_createContent",
       args |-> [title |-> "T", spaceKey |-> "X", type |-> ty,
                 content |-> c, parentId |-> p]] :
        ty \in {"page", "blogpost", ""}, c \in {"<p>c</p>", ""},
        p \in {None, Some(""), Some("9")} }
    \cup
    { [tool |-> "confluence_updateContent",
       args |-> [contentId |-> c, title |-> ti, content |-> co,
                 version |-> v, versionComment |-> vc]] :
        c \in ContentIds, ti \in {None, Some(""), Some("New")},
        co \in {None, Some(""), Some("<p>new</p>")},
        v \in {0, 5}, vc \in {None, Some("c")} }
    \cup
    { [tool |-> "confluence_searchSpace",
       args |-> [searchText |-> t, limit |-> l, start |-> s, expand |-> e]] :
        t \in {"dev", "a\"b"}, l \in OptNums, s \in OptNums, e \in {None} }
    \cup
    { [tool |-> "confluence_deletePage",
       args |-> [contentId |-> c, status |-> st]] :
        c \in ContentIds, st \in {None, Some("trashed")} }
    \cup
    { [tool |-> "confluence_getPageChildren",
       args |-> [contentId |-> "123", limit |-> l, start |-> s, expand |-> e]] :
        l \in OptNums, s \in OptNums, e \in OptExpand }
    \cup
    { [tool |-> "confluence_getLabels",
       args |-> [contentId |-> "123", prefix |-> p, limit |-> l, start |-> s]] :
        p \in {None, Some("my")}, l \in OptNums, s \in OptNums }
    \cup
    { [tool |-> "confluence_addLabel",
       args |-> [contentId |-> c, labelName |-> "todo", prefix |-> p]] :
        c \in ContentIds, p \in {Some("global"), Some("team")} }
    \cup
    { [tool |-> "confluence_getComments",
       args |-> [contentId |-> "123", limit |-> l, start |-> s,
                 expand |-> e, depth |-> d]] :
        l \in OptNums, s \in OptNums, e \in {None, Some("")},
        d \in {None, Some("all")} }
    \cup
    { [tool |-> "confluence_addComment",
       args |-> [contentId |-> c, body |-> "<p>hi</p>", parentCommentId |-> p]] :
        c \in ContentIds, p \in {None, Some(""), Some("77")} }
    \cup
    { [tool |-> "confluence_getAttachments",
       args |-> [contentId |-> "123", filename |-> f, mediaType |-> None,
                 limit |-> l, start |-> s, expand |-> None]] :
        f \in {None, Some("a.png")}, l \in OptNums, s \in OptNums }
    \cup
    { [tool |-> "confluence_deleteAttachment",
       args |-> [contentId |-> c, attachmentId |-> "att1"]] :
        c \in ContentIds }

----------------------------------------------------------------------------
(* The handler's continuation after an awaited gateway call *)

Call(request) == [kind |-> "call", request |-> request]
Return(result) == [kind |-> "return", response |-> formatToolResponse(result)]

\* A handler that issues its first call once more when it failed.
HandlerStepRetry(t, a, n, e) ==
    IF ~e.success /\ n = 1
    THEN Call(FirstCall(t, a))
    ELSE IF t = "confluence_updateContent" /\ n = 1
    THEN IF ~FetchUsable(e)
         THEN Return(FetchFailure(a.contentId, e))
         ELSE Call(updateContent(a.contentId, updateObjWithBody(a, e.data[1])))
    ELSE Return(e)

\* What the handler of tool t does when its n-th gateway call resolved to
\* envelope e: issue another gateway call, or return.
HandlerStep(t, a, n, e) ==
    IF t = "confluence_updateContent" /\ n = 1
    THEN IF ~FetchUsable(e)
         THEN Return(FetchFailure(a.contentId, e))
         ELSE Call(updateContent(a.contentId, updateObjWithBody(a, e.data[1])))
    ELSE Return(e)

----------------------------------------------------------------------------
(* State machine *)

EnvSettings ==
    [token : {None, Some(""), Some("tok")},
     host : {None, Some(""), Some("host.com")},
     basePath : {None, Some(""), Some("https://host.com/wiki/")}]

OpenAPIDefault == [BASE |-> None, TOKEN |-> None, VERSION |-> None]

\* The remote request `request` of gateway number g as the generated client
\* sends it: to OpenAPI.BASE, with OpenAPI.TOKEN as bearer token, both read
\* when the request is made.
Sent(g, request, api) ==
    [gateway |-> g, op |-> request.op, base |-> api.BASE, token |-> api.TOKEN]

\* The base URL and token a construction that left the client at `api` set.
ConstructedWith(api) == [base |-> api.BASE, token |-> api.TOKEN]

NoGateways ==
    /\ gateways = << >>
    /\ lastRequest = None

IdleTool ==
    /\ tool = ""
    /\ args = None
    /\ phase = "idle"
    /\ calls = << >>
    /\ envelopes = << >>
    /\ response = None
    /\ raised = FALSE

Init ==
    /\ env \in EnvSettings
    /\ pc = "load"
    /\ missingEnvVars = << >>
    /\ startupError = None
    /\ ctorArgs = None
    /\ ctorError = None
    /\ OpenAPI = OpenAPIDefault
    /\ registered = {}
    /\ IdleTool
    /\ NoGateways

\* index.ts:9
ValidateConfig ==
    /\ pc = "load"
    /\ missingEnvVars' = validateConfig(env)
    /\ pc' = "validated"
    /\ UNCHANGED <<env, startupError, ctorArgs, ctorError, OpenAPI, registered>>
    /\ UNCHANGED toolVars
    /\ UNCHANGED gatewayVars

\* index.ts:10-12
ThrowMissing ==
    /\ pc = "validated"
    /\ Len(missingEnvVars) > 0
    /\ startupError' = Some("Missing required environment variables: "
                            \o Join(missingEnvVars))
    /\ pc' = "fatal"
    /\ UNCHANGED <<env, missingEnvVars, ctorArgs, ctorError, OpenAPI, registered>>
    /\ UNCHANGED toolVars
    /\ UNCHANGED gatewayVars

\* index.ts:16, the host argument of the startup construction.
StartupHostArg(e) == IF Truthy(e.basePath) THEN None ELSE e.host

\* index.ts:15-19
ConstructService ==
    /\ pc = "validated"
    /\ Len(missingEnvVars) = 0
    /\ LET host == StartupHostArg(env)
           r == Constructor(host, env.token, env.basePath, OpenAPI)
       IN  /\ ctorArgs' = Some([host |-> host, token |-> env.token,
                                fullApiUrl |-> env.basePath])
           /\ ctorError' = r.error
           /\ startupError' = r.error
           /\ OpenAPI' = r.api
           /\ pc' = IF r.error = None THEN "constructed" ELSE "fatal"
           /\ gateways' = IF r.error = None
                          THEN Append(gateways, ConstructedWith(r.api))
                          ELSE gateways
    /\ UNCHANGED <<env, missingEnvVars, registered, lastRequest>>
    /\ UNCHANGED toolVars

\* index.ts:25-217: createMcpServer and the server.tool registrations
RegisterTools ==
    /\ pc = "constructed"
    /\ registered' = ToolNames
    /\ pc' = "registered"
    /\ UNCHANGED <<env, missingEnvVars, startupError, ctorArgs, ctorError, OpenAPI>>
    /\ UNCHANGED toolVars
    /\ UNCHANGED gatewayVars

\* index.ts:219
ConnectServer ==
    /\ pc = "registered"
    /\ pc' = "serving"
    /\ UNCHANGED <<env, missingEnvVars, startupError, ctorArgs, ctorError,
                   OpenAPI, registered>>
    /\ UNCHANGED toolVars
    /\ UNCHANGED gatewayVars

\* A caller invokes tool t with validated arguments a: the handler runs up to
\* its first await, with the remote operation of its first gateway call issued.
CallTool(t, a) ==
    /\ pc = "serving"
    /\ phase = "idle"
    /\ t \in registered
    /\ tool' = t
    /\ args' = a
    /\ calls' = <<FirstCall(t, a)>>
    /\ lastRequest' = Some(Sent(1, FirstCall(t, a), OpenAPI))
    /\ phase' = "awaiting"
    /\ UNCHANGED <<envelopes, response, raised, gateways>>
    /\ UNCHANGED startupVars

\* The remote operation in flight settles; the gateway method returns and the
\* handler runs on to its next await or to its return.
GatewayCallSettles(outcome) ==
    /\ phase = "awaiting"
    /\ LET r == GatewayReturn(outcome)
       IN  IF r.raised
           THEN /\ raised' = TRUE
                /\ phase' = "done"
                /\ UNCHANGED <<calls, envelopes, response, lastRequest>>
           ELSE LET step == HandlerStep(tool, args, Len(calls), r.envelope)
                IN  /\ envelopes' = Append(envelopes,
                                           [outcome |-> outcome,
                                            envelope |-> r.envelope])
                    /\ raised' = FALSE
                    /\ IF step.kind = "call"
                       THEN /\ calls' = Append(calls, step.request)
                            /\ lastRequest' = Some(Sent(1, step.request, OpenAPI))
                            /\ phase' = "awaiting"
                            /\ UNCHANGED response
                       ELSE /\ response' = Some(step.response)
                            /\ phase' = "done"
                            /\ UNCHANGED <<calls, lastRequest>>
    /\ UNCHANGED <<tool, args, gateways>>
    /\ UNCHANGED startupVars

\* The response has been delivered; the server is ready for the next request.
Finish ==
    /\ phase = "done"
    /\ tool' = ""
    /\ args' = None
    /\ phase' = "idle"
    /\ calls' = << >>
    /\ envelopes' = << >>
    /\ response' = None
    /\ raised' = FALSE
    /\ UNCHANGED startupVars
    /\ UNCHANGED gatewayVars

Next ==
    \/ ValidateConfig
    \/ ThrowMissing
    \/ ConstructService
    \/ RegisterTools
    \/ ConnectServer
    \/ \E in \in ToolInputs : CallTool(in.tool, in.args)
    \/ \E outcome \in Outcomes : GatewayCallSettles(outcome)
    \/ Finish

Spec == Init /\ [][Next]_vars

----------------------------------------------------------------------------
(* The service class used on its own: any code may construct it *)

HostArgs == {None, Some(""), Some("host.com"), Some("other.org")}
TokenArgs == {Some("tok"), Some("tok2"), Some("")}
UrlArgs == {None, Some(""), Some("https://host.com/wiki/"), Some("http://x/")}

InitService ==
    /\ env = [token |-> None, host |-> None, basePath |-> None]
    /\ pc = "library"
    /\ missingEnvVars = << >>
    /\ startupError = None
    /\ ctorArgs = None
    /\ ctorError = None
    /\ OpenAPI = OpenAPIDefault
    /\ registered = {}
    /\ IdleTool
    /\ NoGateways

\* new ConfluenceService(host, token, fullApiUrl)
NewService(host, token, fullApiUrl) ==
    /\ pc = "library"
    /\ LET r == Constructor(host, token, fullApiUrl, OpenAPI)
       IN  /\ ctorArgs' = Some([host |-> host, token |-> token,
                                fullApiUrl |-> fullApiUrl])
           /\ ctorError' = r.error
           /\ OpenAPI' = r.api
    /\ UNCHANGED <<env, pc, missingEnvVars, startupError, registered>>
    /\ UNCHANGED toolVars
    /\ UNCHANGED gatewayVars

NextService ==
    \E h \in HostArgs, t \in TokenArgs, u \in UrlArgs : NewService(h, t, u)

SpecService == InitService /\ [][NextService]_vars

----------------------------------------------------------------------------
(* Properties *)

IsUpdate == tool = "confluence_updateContent"

\* The envelope the initial getContent of confluence_updateContent resolved to.
Fetched == envelopes[1].envelope

\* The content object handed to the remote update operation.
Payload == calls[2].body

\* C1: in confluence_updateContent, a fetch that resolved to success=false, or
\* to success=true without data, makes the tool return the failure envelope
\* "Failed to retrieve content with ID <contentId>: <fetch error, or 'Unknown
\* error' when the fetch carried none>" without invoking the remote update;
\* and the remote update is only ever invoked as the second call of
\* confluence_updateContent, after a fetch with success=true and data.
C1_FetchFailureAborts ==
    /\ (IsUpdate /\ Len(envelopes) >= 1 /\ (~Fetched.success \/ Fetched.data = None))
        => /\ phase = "done"
           /\ Len(calls) = 1
           /\ calls[1].op # "update2"
           /\ response # None
           /\ response[1].content.success = FALSE
           /\ response[1].content.data = None
           /\ response[1].content.error =
                Some("Failed to retrieve content with ID " \o args.contentId
                     \o ": " \o (IF Fetched.error = None THEN "Unknown error"
                                 ELSE Fetched.error[1]))
    /\ \A i \in DOMAIN calls :
          calls[i].op = "update2"
            => /\ IsUpdate
               /\ i = 2
               /\ Fetched.success
               /\ Fetched.data # None

C1_Witness ==
    /\ IsUpdate
    /\ phase = "done"
    /\ Len(calls) = 1
    /\ Fetched = [success |-> FALSE, data |-> None, error |-> Some("boom")]
    /\ response[1].content.error =
          Some("Failed to retrieve content with ID 123: boom")

\* C2: every gateway method resolves to an envelope and never raises: a failed
\* remote operation gives success=false, an error message and no data; a
\* successful one gives success=true and the remote payload unmodified.
C2_GatewayNeverRaises ==
    /\ raised = FALSE
    /\ \A i \in DOMAIN envelopes :
          LET o == envelopes[i].outcome
              e == envelopes[i].envelope
          IN  /\ o.ok => (e.success /\ e.data = o.data /\ e.error = None)
              /\ ~o.ok => (~e.success /\ e.data = None /\ e.error # None)

C2_Witness ==
    /\ tool = "confluence_addComment"
    /\ phase = "done"
    /\ raised = FALSE
    /\ Len(envelopes) = 1
    /\ ~envelopes[1].outcome.ok
    /\ envelopes[1].envelope.error = Some("Not Found")

\* The parts of C3 that do not concern the title.
C3_FixedFields ==
    /\ Payload.id = args.contentId
    /\ Payload.type = Some(Fetched.data[1].type)
    /\ Payload.space = Some(Fetched.data[1].space)
    /\ Payload.version = [number |-> args.version, message |-> args.versionComment]

\* C3 as stated: the payload sent to updateContent has id = contentId, type and
\* space of the fetched item, version = {number: caller's version, message:
\* caller's versionComment} independent of the fetched version, and the
\* caller's title whenever the caller supplied one (for every supplied string
\* value), otherwise the fetched title.
C3_AnySuppliedTitleWins ==
    (IsUpdate /\ Len(calls) = 2)
        => /\ C3_FixedFields
           /\ Payload.title = (IF args.title # None THEN args.title
                               ELSE Some(Fetched.data[1].title))

\* C3 as amended: as above, but the title is the caller's title whenever the
\* caller supplied a non-empty title, and the fetched title when the caller
\* omitted the title or supplied the empty string.
C3_NonEmptyTitleWins ==
    (IsUpdate /\ Len(calls) = 2)
        => /\ C3_FixedFields
           /\ Payload.title = (IF args.title # None /\ args.title # Some("")
                               THEN args.title
                               ELSE Some(Fetched.data[1].title))

C3_Witness ==
    /\ IsUpdate
    /\ Len(calls) = 2
    /\ args.title = Some("")
    /\ args.version = 5
    /\ Payload.title = Some("Old")
    /\ Payload.version.number = 5

\* C4: the payload sent to updateContent has a body field if and only if the
\* caller supplied the content parameter; when present the body is exactly
\* {storage: {value: <content>, representation: "storage"}}.
C4_BodyIffContentSupplied ==
    (IsUpdate /\ Len(calls) = 2)
        => /\ ("body" \in DOMAIN Payload) <=> (args.content # None)
           /\ ("body" \in DOMAIN Payload)
                => Payload.body = [storage |-> [value |-> args.content[1],
                                                representation |-> "storage"]]

\* The expand argument of the getContent call behind a remote get-content-by-id:
\* the tool's own for confluence_getContent, none for the update's fetch.
ExpandArg == IF tool = "confluence_getContent" THEN args.expand ELSE None

\* C5 as stated: the expand passed to the remote get-content-by-id is
\* "body.storage" when expand is absent, "<expand>,body.storage" for every
\* supplied expand string that does not contain "body.storage", and the
\* supplied expand unchanged when it contains it; so it always contains
\* "body.storage".
C5_ExpandEveryString ==
    \A i \in DOMAIN calls :
        calls[i].op = "getContentById"
          => /\ calls[i].expand =
                    (IF ExpandArg = None THEN "body.storage"
                     ELSE IF ~Includes(ExpandArg[1], "body.storage")
                     THEN ExpandArg[1] \o ",body.storage"
                     ELSE ExpandArg[1])
             /\ Includes(calls[i].expand, "body.storage")

\* C5 as amended: the effective expand is "body.storage" when expand is absent
\* or the empty string, "<expand>,body.storage" for every supplied non-empty
\* expand that does not contain "body.storage", and the supplied expand
\* unchanged when it contains it; so it always contains "body.storage".
C5_ExpandNonEmptyString ==
    \A i \in DOMAIN calls :
        calls[i].op = "getContentById"
          => /\ calls[i].expand =
                    (IF ExpandArg = None \/ ExpandArg = Some("")
                     THEN "body.storage"
                     ELSE IF ~Includes(ExpandArg[1], "body.storage")
                     THEN ExpandArg[1] \o ",body.storage"
                     ELSE ExpandArg[1])
             /\ Includes(calls[i].expand, "body.storage")

C5_Witness ==
    /\ tool = "confluence_getContent"
    /\ args.expand = Some("space,version")
    /\ Len(calls) = 1
    /\ calls[1].expand = "space,version,body.storage"

\* A host, base path or token is given (present) when it is a non-empty
\* string: an environment variable set to nothing configures nothing.
Given(o) == o # None /\ o # Some("")

\* C6: constructing the gateway with neither a host nor a full base path fails
\* with the configuration error and sets no base URL or token; with a full base
\* path the base URL is that path verbatim whatever host is also passed; with
\* only a host the base URL is "https://<host>"; in both successful cases the
\* token is the supplied token.
C6_Construction ==
    [][(ctorArgs' # ctorArgs \/ OpenAPI' # OpenAPI \/ ctorError' # ctorError)
        => LET a == ctorArgs'[1]
           IN  /\ (~Given(a.host) /\ ~Given(a.fullApiUrl))
                    => /\ ctorError' = Some(ConstructorError)
                       /\ OpenAPI'.BASE = OpenAPI.BASE
                       /\ OpenAPI'.TOKEN = OpenAPI.TOKEN
               /\ Given(a.fullApiUrl)
                    => /\ ctorError' = None
                       /\ OpenAPI'.BASE = a.fullApiUrl
                       /\ OpenAPI'.TOKEN = a.token
               /\ (Given(a.host) /\ ~Given(a.fullApiUrl))
                    => /\ ctorError' = None
                       /\ OpenAPI'.BASE = Some("https://" \o a.host[1])
                       /\ OpenAPI'.TOKEN = a.token]_vars

C6_Witness ==
    /\ pc = "library"
    /\ ctorArgs # None
    /\ ctorArgs[1].host = Some("other.org")
    /\ ctorArgs[1].fullApiUrl = Some("https://host.com/wiki/")
    /\ ctorError = None
    /\ OpenAPI.BASE = Some("https://host.com/wiki/")
    /\ OpenAPI.TOKEN = ctorArgs[1].token

\* C7: validateConfig() returns the token-missing entry iff the token is
\* absent and the host-or-path-missing entry iff both host and base path are
\* absent, the token entry first and nothing else; it returns the empty list
\* iff the token and at least one of host and base path are present.
C7_ValidateConfig ==
    pc # "load" /\ pc # "library"
      => /\ (\E i \in DOMAIN missingEnvVars : missingEnvVars[i] = TokenMissing)
              <=> ~Given(env.token)
         /\ (\E i \in DOMAIN missingEnvVars : missingEnvVars[i] = HostOrPathMissing)
              <=> (~Given(env.host) /\ ~Given(env.basePath))
         /\ \A i \in DOMAIN missingEnvVars :
              missingEnvVars[i] \in {TokenMissing, HostOrPathMissing}
         /\ Len(missingEnvVars) <= 2
         /\ Len(missingEnvVars) = 2 => missingEnvVars[1] = TokenMissing
         /\ Len(missingEnvVars) = 2 => missingEnvVars[2] = HostOrPathMissing
         /\ missingEnvVars = << >>
              <=> (Given(env.token) /\ (Given(env.host) \/ Given(env.basePath)))

C7_Witness ==
    /\ pc = "fatal"
    /\ env.token = None
    /\ env.host = Some("")
    /\ env.basePath = None
    /\ missingEnvVars = <<TokenMissing, HostOrPathMissing>>

\* C8: at startup the configuration is validated first; when validateConfig()
\* returned a non-empty list the process throws "Missing required environment
\* variables" and never constructs the gateway, registers a tool or connects;
\* when it returned the empty list the construction succeeds and the host is
\* passed as absent whenever a base path is configured.
C8_Startup ==
    /\ pc = "load" => (ctorArgs = None /\ registered = {} /\ startupError = None)
    /\ (pc # "load" /\ Len(missingEnvVars) > 0)
         => /\ pc \in {"validated", "fatal"}
            /\ ctorArgs = None
            /\ registered = {}
            /\ OpenAPI = OpenAPIDefault
            /\ pc = "validated" => (ENABLED ThrowMissing /\ ~ENABLED ConstructService)
            /\ pc = "fatal"
                 => /\ startupError # None
                    /\ SubSeq(startupError[1], 1, 38)
                         = "Missing required environment variables"
    /\ (pc \notin {"load", "validated", "library"} /\ Len(missingEnvVars) = 0)
         => /\ pc # "fatal"
            /\ startupError = None
            /\ ctorArgs # None
            /\ ctorError = None
            /\ Given(env.basePath) => ctorArgs[1].host = None
    /\ pc \in {"registered", "serving"} <=> registered # {}
    /\ registered # {} => ctorArgs # None

C8_Witness ==
    /\ pc = "serving"
    /\ env.basePath = Some("https://host.com/wiki/")
    /\ env.host = Some("host.com")
    /\ ctorArgs[1].host = None
    /\ ctorError = None

\* The tools whose gateway method takes limit and start: searchContent,
\* getPageChildren, getLabels, getComments, getAttachments, searchSpaces.
PaginationTools ==
    {"confluence_searchContent", "confluence_getPageChildren",
     "confluence_getLabels", "confluence_getComments",
     "confluence_getAttachments", "confluence_searchSpace"}

\* The value of a decimal digit character (-1 for any other character).
DigitValue(ch) ==
    CASE ch = "0" -> 0 [] ch = "1" -> 1 [] ch = "2" -> 2 [] ch = "3" -> 3
      [] ch = "4" -> 4 [] ch = "5" -> 5 [] ch = "6" -> 6 [] ch = "7" -> 7
      [] ch = "8" -> 8 [] ch = "9" -> 9 [] OTHER -> -1

\* The number a string of decimal digits denotes.
RECURSIVE DecimalValue(_)
DecimalValue(str) ==
    IF Len(str) = 0 THEN 0
    ELSE 10 * DecimalValue(SubSeq(str, 1, Len(str) - 1))
         + DigitValue(SubSeq(str, Len(str), Len(str)))

\* str is the decimal string of the natural number n: digits only, no leading
\* zero, denoting n.
IsDecimalStringOf(str, n) ==
    /\ Len(str) >= 1
    /\ \A i \in 1..Len(str) : DigitValue(SubSeq(str, i, i)) >= 0
    /\ Len(str) > 1 => SubSeq(str, 1, 1) # "0"
    /\ DecimalValue(str) = n

\* The wire value of a pagination parameter the caller passed as `given`.
OnWire(wire, given) ==
    IF given = None
    THEN wire = None
    ELSE /\ wire # None
         /\ IsDecimalStringOf(wire[1], given[1])
         /\ given[1] = 0 => wire = Some("0")

\* C9: each of limit and start reaches the remote operation as its decimal
\* string when the caller supplied a number, 0 included (as "0"), and as
\* absent when the caller omitted it; never as a default.
C9_Pagination ==
    (tool \in PaginationTools /\ Len(calls) >= 1)
        => /\ OnWire(calls[1].limit, args.limit)
           /\ OnWire(calls[1].start, args.start)

C9_Witness ==
    /\ tool = "confluence_getLabels"
    /\ args.limit = Some(0)
    /\ args.start = None
    /\ calls[1].limit = Some("0")
    /\ calls[1].start = None

\* C10: every gateway method call issues exactly one remote operation; a tool
\* invocation issues at most two, one after the other; only
\* confluence_updateContent issues two (the get-content read, then the update
\* write, started only once the read has resolved); every other tool issues
\* exactly one; no remote call is issued again after a failure.
C10_RemoteCalls ==
    /\ Len(calls) <= 2
    /\ tool # "" => Len(calls) >= 1
    /\ (tool # "" /\ ~IsUpdate) => Len(calls) = 1
    /\ Len(calls) = 2
         => /\ IsUpdate
            /\ calls[1].op = "getContentById"
            /\ calls[2].op = "update2"
            /\ Len(envelopes) >= 1
            /\ Fetched.success
    /\ phase = "awaiting" => Len(calls) = Len(envelopes) + 1
    /\ phase = "done" => Len(calls) = Len(envelopes)
    /\ \A i \in DOMAIN envelopes :
          ~envelopes[i].envelope.success => Len(calls) = i

C10_Witness ==
    /\ IsUpdate
    /\ phase = "done"
    /\ Len(calls) = 2
    /\ Len(envelopes) = 2
    /\ ~envelopes[2].envelope.success

----------------------------------------------------------------------------
(* Several gateways in one process *)

\* Number of ConfluenceService objects a client constructs and keeps.
MaxGateways == 2

GatewayHosts == {None, Some("host.com"), Some("other.org")}
GatewayTokens == {Some("tok"), Some("tok2")}
GatewayUrls == {None, Some("https://host.com/wiki/")}

\* Remote operations the methods of a kept gateway issue.
GatewayRequests ==
    {getContent("123", None), deleteContent("123", None),
     searchContent("type=page", Some(0), None, None)}

InitGateways ==
    /\ env = [token |-> None, host |-> None, basePath |-> None]
    /\ pc = "gateways"
    /\ missingEnvVars = << >>
    /\ startupError = None
    /\ ctorArgs = None
    /\ ctorError = None
    /\ OpenAPI = OpenAPIDefault
    /\ registered = {}
    /\ IdleTool
    /\ NoGateways

\* const g = new ConfluenceService(host, token, fullApiUrl), and g is kept.
NewGateway(host, token, fullApiUrl) ==
    /\ pc = "gateways"
    /\ Len(gateways) < MaxGateways
    /\ LET r == Constructor(host, token, fullApiUrl, OpenAPI)
       IN  /\ ctorArgs' = Some([host |-> host, token |-> token,
                                fullApiUrl |-> fullApiUrl])
           /\ ctorError' = r.error
           /\ OpenAPI' = r.api
           /\ gateways' = IF r.error = None
                          THEN Append(gateways, ConstructedWith(r.api))
                          ELSE gateways
    /\ UNCHANGED <<env, pc, missingEnvVars, startupError, registered, lastRequest>>
    /\ UNCHANGED toolVars

\* A method of gateway number g issues its remote operation.
GatewayCall(g, request) ==
    /\ pc = "gateways"
    /\ g \in DOMAIN gateways
    /\ lastRequest' = Some(Sent(g, request, OpenAPI))
    /\ UNCHANGED gateways
    /\ UNCHANGED startupVars
    /\ UNCHANGED toolVars

NextGateways ==
    \/ \E h \in GatewayHosts, t \in GatewayTokens, u \in GatewayUrls :
          NewGateway(h, t, u)
    \/ \E g \in 1..MaxGateways, request \in GatewayRequests :
          GatewayCall(g, request)

SpecGateways == InitGateways /\ [][NextGateways]_vars

\* C11: every remote call of a gateway goes out with the base URL and the
\* token that gateway was constructed with, whatever has happened since its
\* construction: other gateway methods, tool handlers, or the construction of
\* another gateway with a different host, base path or token.
C11_ConfigFixedPerGateway ==
    lastRequest # None
      => /\ lastRequest[1].gateway \in DOMAIN gateways
         /\ lastRequest[1].base = gateways[lastRequest[1].gateway].base
         /\ lastRequest[1].token = gateways[lastRequest[1].gateway].token

=============================================================================
